---- MODULE Spec2Model ----
(***************************************************************************)
(* Model of src/MOHO/MOHO.py: the multi-objective hippopotamus optimizer   *)
(* (determine_dominance, non_dominated_sort, evaluate_objectives, moho).   *)
(*                                                                         *)
(* Numbers.  The program computes with float64.  Here positions, draws and *)
(* objective values live on an integer grid: a position coordinate is one  *)
(* of the grid points of [lb, ub], a draw of rand() is one of the grid     *)
(* points {0, 1} of its range, a draw of 2*rand()-1 one of {-1, 0, 1}.     *)
(* Crowding distances are exact fractions <<num, den>>, np.inf is <<1,0>>. *)
(* Arrays are 1-indexed sequences; the index k of the model is the index   *)
(* k-1 of the program.                                                     *)
(***************************************************************************)
EXTENDS Integers, Sequences, FiniteSets, TLC

\* ------------------------------------------------------------------ bounds

\* The pop_size and the max_gen handed to moho (MOHO.py:154) in the runs of
\* the whole algorithm.
PopSize == 2
MaxGen == 2
\* Largest objective value and largest number of individuals of the inputs on
\* which determine_dominance and non_dominated_sort are exercised on their own.
MaxScore == 1
MaxInd == 4

\* ------------------------------------------------------------ the problem

\* The problem dict of main (MOHO.py:348-353), with the bounds lb = 0 and
\* ub = 1 of the program and a search space cut down from 240 candidate
\* positions and 15 sensors to 3 and 1.
problem == [dimension |-> 3, n_sensors |-> 1, lb |-> 0, ub |-> 1]

\* --------------------------------------------------------------- utilities

Range(s) == {s[k] : k \in DOMAIN s}

Abs(x) == IF x < 0 THEN -x ELSE x

RECURSIVE SumSeq(_)
SumSeq(s) == IF s = <<>> THEN 0 ELSE Head(s) + SumSeq(Tail(s))

RECURSIVE Gcd(_, _)
Gcd(x, y) == IF y = 0 THEN x ELSE Gcd(y, x % y)

\* Ascending list of the members of a set of integers.
RECURSIVE SetToSeq(_)
SetToSeq(S) ==
    IF S = {} THEN <<>>
    ELSE LET m == CHOOSE x \in S : \A y \in S : x <= y
         IN <<m>> \o SetToSeq(S \ {m})

\* np.where(cond)[0]: the ascending indices k of v with v[k] = x.
Where(v, x) == SetToSeq({k \in DOMAIN v : v[k] = x})

\* ------------------------------------------------------ extended fractions

Inf == <<1, 0>>

Zero == <<0, 1>>

IsInf(q) == q[2] = 0

Frac(n, d) == LET g == Gcd(Abs(n), d) IN <<n \div g, d \div g>>

\* float addition on fractions and np.inf (all summands are >= 0).
FAdd(p, q) ==
    IF IsInf(p) \/ IsInf(q) THEN Inf
    ELSE Frac(p[1] * q[2] + q[1] * p[2], p[2] * q[2])

\* p <= q on fractions and np.inf.
FLeq(p, q) ==
    IF IsInf(q) THEN TRUE
    ELSE IF IsInf(p) THEN FALSE
    ELSE p[1] * q[2] <= q[1] * p[2]

\* ----------------------------------------------------- determine_dominance

\* A variant whose second test forgets np.any: equal vectors compare as -1.
determine_dominance_no_any(score1, score2) ==
    IF (\A k \in DOMAIN score1 : score1[k] <= score2[k])
       /\ (\E k \in DOMAIN score1 : score1[k] < score2[k])
    THEN 1
    ELSE IF (\A k \in DOMAIN score1 : score2[k] <= score1[k])
    THEN -1
    ELSE 0

\* A variant that asks for np.all(score1 < score2) instead of <= with one <.
determine_dominance_all_strict(score1, score2) ==
    IF \A k \in DOMAIN score1 : score1[k] < score2[k]
    THEN 1
    ELSE IF \A k \in DOMAIN score1 : score2[k] < score1[k]
    THEN -1
    ELSE 0

determine_dominance(score1, score2) ==
    IF (\A k \in DOMAIN score1 : score1[k] <= score2[k])
       /\ (\E k \in DOMAIN score1 : score1[k] < score2[k])
    THEN 1
    ELSE IF (\A k \in DOMAIN score1 : score2[k] <= score1[k])
            /\ (\E k \in DOMAIN score1 : score2[k] < score1[k])
    THEN -1
    ELSE 0

\* ------------------------------------------------------------ np.argsort

\* The orderings p of the index set S that are ascending for the order leq
\* (leq[x, y]: the value at x is <= the value at y).
RECURSIVE SortOrders(_, _)
SortOrders(S, leq) ==
    IF S = {} THEN {<<>>}
    ELSE UNION {{<<m>> \o p : p \in SortOrders(S \ {m}, leq)} :
                m \in {x \in S : \A y \in S : leq[x, y]}}

\* np.argsort(v): an ordering p of the indices of v with
\* v[p[1]] <= v[p[2]] <= ...  The default sort kind is not stable, so among
\* equal values any order can come back: the set of all such orderings.
argsort(v) == SortOrders(DOMAIN v, [x \in DOMAIN v, y \in DOMAIN v |-> v[x] <= v[y]])

\* The order among them that keeps equal values in index order: what the
\* default sort kind returns on arrays of at most 16 elements (insertion sort).
RECURSIVE StableOrder(_, _)
StableOrder(S, leq) ==
    IF S = {} THEN <<>>
    ELSE LET least == {x \in S : \A y \in S : leq[x, y]}
             m == CHOOSE x \in least : \A y \in least : x <= y
         IN <<m>> \o StableOrder(S \ {m}, leq)

argsort_stable(v) == StableOrder(DOMAIN v, [x \in DOMAIN v, y \in DOMAIN v |-> v[x] <= v[y]])

\* The outcomes of np.argsort(v) that are taken into account: every order
\* where non_dominated_sort is exercised on its own (ties = "any"), and the
\* stable one inside a run of moho (ties = "stable"), where the sort is one
\* fixed function of its input.
Argsorts(v, ties) == IF ties = "any" THEN argsort(v) ELSE {argsort_stable(v)}

\* ----------------------------------------------------- non_dominated_sort

\* Part 1, the pair loop (MOHO.py:62-70): domination_sets[i] lists, in the
\* order of the appends, the j that i dominates.  Pair (a, b), a < b, is
\* compared once, as determine_dominance(scores[a], scores[b]); the pairs
\* (a, i) with a < i come before the pairs (i, b), and each group in
\* ascending order, so the list is ascending.
domination_sets(scores) ==
    [i \in DOMAIN scores |->
        SetToSeq({j \in DOMAIN scores :
            \/ i < j /\ determine_dominance(scores[i], scores[j]) = 1
            \/ j < i /\ determine_dominance(scores[j], scores[i]) = -1})]

\* A variant of the pair loop that forgets dominated_counts[i] += 1 of the
\* elif branch (MOHO.py:70).
dominated_counts_forward(scores) ==
    [j \in DOMAIN scores |->
        Cardinality({i \in DOMAIN scores :
            i < j /\ determine_dominance(scores[i], scores[j]) = 1})]

dominated_counts(scores) ==
    [j \in DOMAIN scores |->
        Cardinality({i \in DOMAIN scores :
            \/ i < j /\ determine_dominance(scores[i], scores[j]) = 1
            \/ j < i /\ determine_dominance(scores[j], scores[i]) = -1})]

\* The j visited by the two nested loops of MOHO.py:83-84, in order.
RECURSIVE Visits(_, _)
Visits(front, sets) ==
    IF front = <<>> THEN <<>>
    ELSE sets[Head(front)] \o Visits(Tail(front), sets)

\* MOHO.py:85-87 along the visits: decrement, append on reaching zero.
RECURSIVE Decrement(_, _, _)
Decrement(visits, counts, next) ==
    IF visits = <<>> THEN [counts |-> counts, next |-> next]
    ELSE LET j == Head(visits)
             c == counts[j] - 1
         IN Decrement(Tail(visits), [counts EXCEPT ![j] = c],
                      IF c = 0 THEN Append(next, j) ELSE next)

\* A variant of the loop that forgets front_num += 1.
RECURSIVE Peel_no_increment(_, _, _, _, _, _)
Peel_no_increment(current, sets, counts, ranks, fronts, front_num) ==
    IF current = <<>> THEN [ranks |-> ranks, fronts |-> fronts]
    ELSE LET step == Decrement(Visits(current, sets), counts, <<>>)
         IN Peel_no_increment(step.next, sets, step.counts,
                 [k \in DOMAIN ranks |->
                     IF k \in Range(current) THEN front_num ELSE ranks[k]],
                 Append(fronts, current), front_num)

\* The while loop of MOHO.py:78-90.
RECURSIVE Peel(_, _, _, _, _, _)
Peel(current, sets, counts, ranks, fronts, front_num) ==
    IF current = <<>> THEN [ranks |-> ranks, fronts |-> fronts]
    ELSE LET step == Decrement(Visits(current, sets), counts, <<>>)
         IN Peel(step.next, sets, step.counts,
                 [k \in DOMAIN ranks |->
                     IF k \in Range(current) THEN front_num ELSE ranks[k]],
                 Append(fronts, current), front_num + 1)

\* Part 1 as a whole (MOHO.py:59-90): ranks and the list of fronts.
fast_sort(scores) ==
    LET counts == dominated_counts(scores)
    IN Peel(Where(counts, 0), domination_sets(scores), counts,
            [k \in DOMAIN scores |-> 0], <<>>, 1)

\* A variant whose gap is next - current instead of next - previous.
CrowdObjective_adjacent(fs, m, dist, sort_idx) ==
    LET n == Len(fs)
        f_min == fs[sort_idx[1]][m]
        f_max == fs[sort_idx[n]][m]
        pos == [x \in 1..n |-> CHOOSE k \in 1..n : sort_idx[k] = x]
    IN IF f_max = f_min THEN dist
       ELSE [x \in 1..n |->
               IF pos[x] = 1 \/ pos[x] = n THEN Inf
               ELSE FAdd(dist[x],
                         Frac(fs[sort_idx[pos[x] + 1]][m] - fs[x][m],
                              f_max - f_min))]

\* One objective m of the crowding loop (MOHO.py:104-119) on the scores fs of
\* a front, with sort_idx the outcome of the argsort.
CrowdObjective(fs, m, dist, sort_idx) ==
    LET n == Len(fs)
        f_min == fs[sort_idx[1]][m]
        f_max == fs[sort_idx[n]][m]
        pos == [x \in 1..n |-> CHOOSE k \in 1..n : sort_idx[k] = x]
    IN IF f_max = f_min THEN dist
       ELSE [x \in 1..n |->
               IF pos[x] = 1 \/ pos[x] = n THEN Inf
               ELSE FAdd(dist[x],
                         Frac(fs[sort_idx[pos[x] + 1]][m] - fs[sort_idx[pos[x] - 1]][m],
                              f_max - f_min))]

\* The loop over the objectives m, m+1, ... (MOHO.py:103): every vector of
\* distances the argsorts can lead to.  On an objective on which the front
\* agrees every order of the argsort leaves dist as it is; one is taken.
RECURSIVE FrontCrowding(_, _, _, _)
FrontCrowding(fs, m, dist, ties) ==
    IF m > Len(fs[1]) THEN {dist}
    ELSE LET column == [x \in 1..Len(fs) |-> fs[x][m]]
         IN UNION {FrontCrowding(fs, m + 1, CrowdObjective(fs, m, dist, p), ties) :
                   p \in IF \A x \in DOMAIN column : column[x] = column[1]
                         THEN {[x \in DOMAIN column |-> x]}
                         ELSE Argsorts(column, ties)}

\* A variant of the size test that sends fronts of two through the loop.
SmallFront_one(front) == Len(front) <= 1

\* The test of MOHO.py:95.
SmallFront(front) == Len(front) <= 2

\* distances_in_front of one front (MOHO.py:95-119).
FrontDistances(scores, front, ties) ==
    IF SmallFront(front) THEN {[x \in 1..Len(front) |-> Inf]}
    ELSE FrontCrowding([x \in 1..Len(front) |-> scores[front[x]]], 1,
                       [x \in 1..Len(front) |-> Zero], ties)

\* Part 2 (MOHO.py:93-121) over the fronts k, k+1, ...
RECURSIVE Crowding(_, _, _, _, _)
Crowding(scores, fronts, k, cd, ties) ==
    IF k > Len(fronts) THEN {cd}
    ELSE LET front == fronts[k]
         IN UNION {Crowding(scores, fronts, k + 1,
                       [y \in DOMAIN cd |->
                           IF \E x \in DOMAIN front : front[x] = y
                           THEN d[CHOOSE x \in DOMAIN front : front[x] = y]
                           ELSE cd[y]], ties) :
                   d \in FrontDistances(scores, front, ties)}

\* non_dominated_sort(scores): the (ranks, crowding_distances) it can return.
non_dominated_sort(scores, ties) ==
    LET part1 == fast_sort(scores)
    IN {[ranks |-> part1.ranks, crowding_distances |-> cd] :
        cd \in Crowding(scores, part1.fronts, 1, [k \in DOMAIN scores |-> Zero], ties)}

\* The fronts of a result: front r is the set of individuals of rank r.
FrontOf(ranks, r) == {k \in DOMAIN ranks : ranks[k] = r}

\* ------------------------------------------------------------------ state

VARIABLES
    pop_size,    \* moho: the argument pop_size
    max_gen,     \* moho: the argument max_gen
    pc,          \* moho: the statement the run is at
    t,           \* moho: the generation counter of MOHO.py:169
    i,           \* moho: the index of the running phase loop
    heap,        \* the ndarrays that are written in place, by identity
    P,           \* moho: the dict P (pos and scores hold array identities)
    Q,           \* moho: the dict Q
    R,           \* moho: the dict R of the merged population, by value
    count,       \* moho: the counter of the selection loop
    parent0,     \* history: the objective vectors of P when the generation began
    evaluated,   \* history: were the evaluator's arguments in bounds, was one clipped
    selected,    \* history: the rows of R copied by the latest selection, in order
    offered,     \* history: the candidates of the latest pass of a phase, if kept
    result,      \* moho: <<>> until the return of MOHO.py:287, then <<value>>
    score1,      \* determine_dominance: first argument
    score2,      \* determine_dominance: second argument
    status,      \* determine_dominance: <<>>, then <<f(score1, score2), f(score2, score1)>>
    scores,      \* non_dominated_sort: the argument
    sorted       \* non_dominated_sort: <<>>, then <<the returned record>>

vars == <<pop_size, max_gen, pc, t, i, heap, P, Q, R, count, parent0, evaluated, selected,
          offered, result, score1, score2, status, scores, sorted>>

mohoVars == <<pop_size, max_gen, pc, t, i, heap, P, Q, R, count, parent0, evaluated, selected,
             offered, result>>
domVars == <<score1, score2, status>>
sortVars == <<scores, sorted>>

MohoIdle ==
    /\ pop_size = 0 /\ max_gen = 0
    /\ pc = "idle" /\ t = 0 /\ i = 0 /\ heap = <<>> /\ P = <<>> /\ Q = <<>>
    /\ R = <<>> /\ count = 0
    /\ parent0 = {} /\ evaluated = <<>> /\ result = <<>>
    /\ offered = <<>> /\ selected = <<>>

DomIdle == score1 = <<>> /\ score2 = <<>> /\ status = <<>>

SortIdle == scores = <<>> /\ sorted = <<>>

\* ------------------------------------- determine_dominance, on its own

\* Objective vectors of length n over 0..MaxScore.
Vectors(n) == [1..n -> 0..MaxScore]

DomLens == 1..3

\* The pairs of scenarios 1 and 2 of the specification.
DomScenarios == {<<(<<1, 2, 3>>), (<<2, 3, 4>>)>>, <<(<<1, 5>>), (<<5, 1>>)>>}

InitDom ==
    /\ MohoIdle /\ SortIdle
    /\ \E pair \in DomScenarios \cup UNION {Vectors(n) \X Vectors(n) : n \in DomLens} :
          score1 = pair[1] /\ score2 = pair[2]
    /\ status = <<>>

\* One comparison of the pair in each order.
Compare ==
    /\ status = <<>>
    /\ status' = <<determine_dominance(score1, score2),
                   determine_dominance(score2, score1)>>
    /\ UNCHANGED <<score1, score2, mohoVars, sortVars>>

NextDom == Compare

SpecDom == InitDom /\ [][NextDom]_vars

\* -------------------------------------- non_dominated_sort, on its own

ObjCounts == {1, 2}

\* Score matrices: n individuals, each with o objectives over 0..MaxScore.
Matrices(n, o) == [1..n -> Vectors(o)]

\* Scenario 4 of the specification as an input of non_dominated_sort, and the
\* same four gaps on two objectives that make the four points one front.
Scenario4 == <<(<<0>>), (<<1>>), (<<2>>), (<<10>>)>>
Scenario4Front == <<(<<0, 10>>), (<<1, 2>>), (<<2, 1>>), (<<10, 0>>)>>

InitSort ==
    /\ MohoIdle /\ DomIdle
    /\ scores \in {Scenario4, Scenario4Front}
                  \cup UNION {Matrices(n, o) : n \in 1..MaxInd, o \in ObjCounts}
    /\ sorted = <<>>

\* One call, with any of the results the argsorts allow.
Sort ==
    /\ sorted = <<>>
    /\ \E r \in non_dominated_sort(scores, "any") : sorted' = <<r>>
    /\ UNCHANGED <<scores, mohoVars, domVars>>

NextSort == Sort

SpecSort == InitSort /\ [][NextSort]_vars

\* ---------------------------------------------------- evaluate_objectives

\* Floor of the square root.
ISqrt(n) == CHOOSE r \in 0..n : r * r <= n /\ (r + 1) * (r + 1) > n

\* n / d rounded to the nearest grid point (d > 0, n >= 0).
RoundDiv(n, d) == (2 * n + d) \div (2 * d)

\* The three objectives of a list of sensor indices (MOHO.py:143-147), each
\* in its own unit so that it is an integer: with k sensors and s, q the sum
\* and the sum of squares of the indices, -std = -sqrt(k*q - s*s) / k,
\* |mean - dimension/2| = |2*s - k*dimension| / (2*k), and the sum s.  The
\* square root is exact for k <= 2.  Dominance and crowding distance do not
\* change when an objective is rescaled.
Objectives(sensor_indices) ==
    LET k == Len(sensor_indices)
        s == SumSeq(sensor_indices)
        q == SumSeq([x \in 1..k |-> sensor_indices[x] * sensor_indices[x]])
    IN <<-ISqrt(k * q - s * s), Abs(2 * s - k * problem.dimension), s>>

\* evaluate_objectives(pos, problem) (MOHO.py:136-147): the sensors are the
\* first n_sensors entries of the reversed argsort.  The program's indices
\* start at 0.
evaluate_objectives(pos) ==
    LET sorted_indices == [x \in 1..Len(pos) |-> argsort_stable(pos)[Len(pos) + 1 - x] - 1]
    IN Objectives([x \in 1..problem.n_sensors |-> sorted_indices[x]])

\* ------------------------------------------------------------------- moho

Indices == 1..pop_size

Coords == 1..problem.dimension

\* The grid points of rand() and of 2 * rand() - 1.
Unit == {0, 1}
Signed == {-1, 0, 1}

\* A variant of np.clip that leaves the candidate as computed.
clip_none(X) == X

\* np.clip(X, problem['lb'], problem['ub']).
clip(X) ==
    [j \in DOMAIN X |->
        IF X[j] < problem.lb THEN problem.lb
        ELSE IF X[j] > problem.ub THEN problem.ub ELSE X[j]]

InBounds(X) == \A j \in DOMAIN X : problem.lb <= X[j] /\ X[j] <= problem.ub

\* dict.copy() (MOHO.py:171): a new dict whose values are the very objects of
\* the old one; the arrays behind 'pos' and 'scores' are not duplicated.
dict_copy(d) == d

\* math.exp(-t / max_gen) > 0.6, that is t / max_gen < -ln 0.6 = 0.5108256...
TimeFactorHigh == 1000000 * t < 510825 * max_gen

\* MOHO.py:174-176.
current_front_one_indices ==
    IF Where(P.ranks, 1) = <<>> THEN [k \in Indices |-> k] ELSE Where(P.ranks, 1)

\* np.mean(P['pos'][group, :], axis=0) for a set of rows (MOHO.py:187).
mean_group(group) ==
    LET rows == SetToSeq(group)
    IN [j \in Coords |->
           RoundDiv(SumSeq([x \in DOMAIN rows |-> heap[P.pos][rows[x]][j]]), Len(rows))]

\* MOHO.py:192.
X_P1(k, leader_idx, I1, r) ==
    [j \in Coords |->
        heap[P.pos][k][j] + r * (heap[P.pos][leader_idx][j] - I1 * heap[P.pos][k][j])]

\* MOHO.py:196.
X_P2_high(k, leader_idx, I2, group, A) ==
    LET mean == mean_group(group)
    IN [j \in Coords |->
           heap[P.pos][k][j] + A[j] * (heap[P.pos][leader_idx][j] - I2 * mean[j])]

\* MOHO.py:199.
X_P2_low(k, leader_idx, group, B) ==
    LET mean == mean_group(group)
    IN [j \in Coords |->
           heap[P.pos][k][j] + B[j] * (mean[j] - heap[P.pos][leader_idx][j])]

\* MOHO.py:201 and 215: lb + rand(dimension) * (ub - lb).
Uniform(u) == [j \in Coords |-> problem.lb + u[j] * (problem.ub - problem.lb)]

\* The second candidates of MOHO.py:194-201 for a leader.
X_P2_set(k, leader_idx) ==
    IF TimeFactorHigh
    THEN {X_P2_high(k, leader_idx, I2, group, A) :
             I2 \in 1..2, group \in SUBSET Indices \ {{}}, A \in [Coords -> Signed]}
    ELSE {X_P2_low(k, leader_idx, group, B) :
             group \in SUBSET Indices \ {{}}, B \in [Coords -> Signed]}
         \cup {Uniform(u) : u \in [Coords -> Unit]}

\* 1 / (distance_to_predator + 1e-6) (MOHO.py:221).
InvDistance(predator, k) ==
    [j \in Coords |->
        RoundDiv(1000000, 1000000 * Abs(predator[j] - heap[P.pos][k][j]) + 1)]

\* The grid points taken for 0.05 * levy(...) and for b / (c - d * cos(l)),
\* which is of either sign and at least 2 / 4.5 in size (MOHO.py:217-219).
LevySteps == [Coords -> Signed]
Factors == {-2, -1, 1, 2}

\* MOHO.py:221, with inverse = 1 / (distance_to_predator + 1e-6).
X_P3(predator, inverse, RL, factor) ==
    [j \in Coords |-> RL[j] * predator[j] + factor * inverse[j]]

\* The candidates of MOHO.py:215-221 for index k.
X_P3_set(k) ==
    UNION {LET predator == Uniform(u)
               inverse == InvDistance(predator, k)
           IN {X_P3(predator, inverse, RL, factor) : RL \in LevySteps, factor \in Factors} :
           u \in [Coords -> Unit]}

\* MOHO.py:234-238.
X_P4(k, r, D) ==
    LET LO_LOCAL == RoundDiv(problem.lb, t)
        HI_LOCAL == RoundDiv(problem.ub, t)
    IN [j \in Coords |->
           heap[Q.pos][k][j] + r * (LO_LOCAL + D[j] * (HI_LOCAL - LO_LOCAL))]

\* A variant of the acceptance test that takes a candidate only if it dominates.
accepts_strict(score_new, score_old) == determine_dominance(score_new, score_old) > 0

\* The acceptance test of MOHO.py:207, 226 and 243.
accepts(score_new, score_old) == determine_dominance(score_new, score_old) >= 0

\* MOHO.py:206-209 (and 225-228, 242-245) on the heap h for a clipped
\* candidate: evaluate, compare with Q's score in slot k, and write Q's arrays
\* in place.  The heap it leaves.
Offer(h, k, X_new) ==
    LET score_new == evaluate_objectives(X_new)
    IN IF accepts(score_new, h[Q.scores][k])
       THEN [h EXCEPT ![Q.pos][k] = X_new, ![Q.scores][k] = score_new]
       ELSE h

\* MOHO.py:205 (and 224, 241) on a set of candidates: what is handed on to the
\* evaluator, and whether np.clip had to move the candidate.
Clipped(Xs) == {[X_new |-> clip(X), moved |-> ~InBounds(X)] : X \in Xs}

\* The history of the candidates: whether it is kept (it is in the
\* specification that reads it), the slot of the latest pass and the clipped
\* candidates of that pass in the order of their tests; the selection, which
\* follows the phases, empties it.
NotKept == [kept |-> FALSE, slot |-> 0, tests |-> <<>>]

Offered(k, Xs) == IF offered.kept THEN [offered EXCEPT !.slot = k, !.tests = Xs] ELSE offered

\* The history of the evaluator's arguments after the candidates cs.
Evaluated(cs) ==
    [in_bounds |-> evaluated.in_bounds /\ \A c \in cs : InBounds(c.X_new),
     clipped |-> evaluated.clipped \/ \E c \in cs : c.moved]

Init ==
    /\ DomIdle /\ SortIdle
    /\ pop_size = PopSize /\ max_gen = MaxGen
    /\ pc = "start" /\ t = 0 /\ i = 0
    /\ heap = <<>> /\ P = <<>> /\ Q = <<>> /\ R = <<>> /\ count = 0
    /\ parent0 = {}
    /\ evaluated = [in_bounds |-> TRUE, clipped |-> FALSE]
    /\ offered = NotKept /\ selected = <<>>
    /\ result = <<>>

\* S41 (MOHO.py:159-166): sample, evaluate, rank.
InitPopulation ==
    /\ pc = "start"
    /\ \E u \in [Indices -> [Coords -> Unit]] :
          LET pos == [k \in Indices |-> Uniform(u[k])]
              s == [k \in Indices |-> evaluate_objectives(pos[k])]
          IN /\ \E r \in non_dominated_sort(s, "stable") :
                   /\ heap' = <<pos, s>>
                   /\ P' = [pos |-> 1, scores |-> 2, ranks |-> r.ranks,
                            crowding_distances |-> r.crowding_distances]
             /\ evaluated' = [evaluated EXCEPT
                                 !.in_bounds = @ /\ \A k \in Indices : InBounds(pos[k])]
    /\ pc' = "for_t"
    /\ UNCHANGED <<t, i, Q, R, count, parent0, result, offered, selected, pop_size, max_gen, domVars, sortVars>>

\* A variant that goes from phase 1 straight to phase 3.
AfterExploration_skip == "escape"

\* The loop that follows phase 1.
AfterExploration == IF pop_size \div 2 < pop_size THEN "defense" ELSE "escape"

\* The head of the main loop and the copy (MOHO.py:169-171).
OffspringCopy ==
    /\ pc = "for_t" /\ t < max_gen
    /\ t' = t + 1
    /\ Q' = dict_copy(P)
    /\ heap' = [a \in {P.pos, P.scores} |-> heap[a]]
    /\ parent0' = Range(heap[P.scores])
    /\ IF pop_size \div 2 >= 1
       THEN pc' = "exploration" /\ i' = 1
       ELSE pc' = AfterExploration /\ i' = pop_size \div 2 + 1
    /\ UNCHANGED <<P, R, count, evaluated, result, offered, selected, pop_size, max_gen, domVars, sortVars>>

\* One pass of the loop of phase 1 (MOHO.py:181-209).
Exploration ==
    /\ pc = "exploration"
    /\ \E x \in DOMAIN current_front_one_indices :
          LET leader_idx == current_front_one_indices[x]
          IN \E cA \in Clipped({X_P1(i, leader_idx, I1, r) : I1 \in 1..2, r \in Unit}),
                cB \in Clipped(X_P2_set(i, leader_idx)) :
                /\ heap' = Offer(Offer(heap, i, cA.X_new), i, cB.X_new)
                /\ evaluated' = Evaluated({cA, cB})
                /\ offered' = Offered(i, <<cA.X_new, cB.X_new>>)
    /\ IF i < pop_size \div 2
       THEN pc' = pc /\ i' = i + 1
       ELSE pc' = AfterExploration
            /\ i' = IF pop_size \div 2 < pop_size THEN pop_size \div 2 + 1 ELSE 1
    /\ UNCHANGED <<t, P, Q, R, count, parent0, result, selected, pop_size, max_gen, domVars, sortVars>>

\* One pass of the loop of phase 2 (MOHO.py:214-228).
Defense ==
    /\ pc = "defense"
    /\ \E c \in Clipped(X_P3_set(i)) :
          /\ heap' = Offer(heap, i, c.X_new)
          /\ evaluated' = Evaluated({c})
          /\ offered' = Offered(i, <<c.X_new>>)
    /\ IF i < pop_size
       THEN pc' = pc /\ i' = i + 1
       ELSE pc' = "escape" /\ i' = 1
    /\ UNCHANGED <<t, P, Q, R, count, parent0, result, selected, pop_size, max_gen, domVars, sortVars>>

\* One pass of the loop of phase 3 (MOHO.py:233-245).
Escape ==
    /\ pc = "escape"
    /\ \E c \in Clipped({X_P4(i, r, D) : r \in Unit, D \in [Coords -> Signed]}) :
          /\ heap' = Offer(heap, i, c.X_new)
          /\ evaluated' = Evaluated({c})
          /\ offered' = Offered(i, <<c.X_new>>)
    /\ IF i < pop_size
       THEN pc' = pc /\ i' = i + 1
       ELSE pc' = "select" /\ i' = 0
    /\ UNCHANGED <<t, P, Q, R, count, parent0, result, selected, pop_size, max_gen, domVars, sortVars>>

\* np.argsort of a list of crowding distances, inside a run.
argsort_distances(v) ==
    StableOrder(DOMAIN v, [x \in DOMAIN v, y \in DOMAIN v |-> FLeq(v[x], v[y])])

\* A variant of the loop that stops at the front that does not fit.
RECURSIVE SelectLoop_no_cut(_, _, _, _, _)
SelectLoop_no_cut(ranks, cd, cnt, front_num, chosen) ==
    IF ~(cnt < pop_size) THEN {chosen}
    ELSE LET front_indices == Where(ranks, front_num)
         IN IF front_indices = <<>> THEN {chosen}
            ELSE IF cnt + Len(front_indices) <= pop_size
            THEN SelectLoop_no_cut(ranks, cd, cnt + Len(front_indices), front_num + 1,
                                   chosen \o front_indices)
            ELSE {chosen}

\* A variant of the loop that forgets the [::-1] of MOHO.py:271.
RECURSIVE SelectLoop_ascending(_, _, _, _, _)
SelectLoop_ascending(ranks, cd, cnt, front_num, chosen) ==
    IF ~(cnt < pop_size) THEN {chosen}
    ELSE LET front_indices == Where(ranks, front_num)
         IN IF front_indices = <<>> THEN {chosen}
            ELSE IF cnt + Len(front_indices) <= pop_size
            THEN SelectLoop_ascending(ranks, cd, cnt + Len(front_indices), front_num + 1,
                                      chosen \o front_indices)
            ELSE LET remaining == pop_size - cnt
                     front_crowding == [x \in DOMAIN front_indices |-> cd[front_indices[x]]]
                     sort_idx == argsort_distances(front_crowding)
                 IN {chosen \o [x \in 1..remaining |-> front_indices[sort_idx[x]]]}

\* The while loop of MOHO.py:259-278 from count = cnt on: the lists of rows
\* of R it can copy into P_next, in the order of the copies.
RECURSIVE SelectLoop(_, _, _, _, _)
SelectLoop(ranks, cd, cnt, front_num, chosen) ==
    IF ~(cnt < pop_size) THEN {chosen}
    ELSE LET front_indices == Where(ranks, front_num)
         IN IF front_indices = <<>> THEN {chosen}
            ELSE IF cnt + Len(front_indices) <= pop_size
            THEN SelectLoop(ranks, cd, cnt + Len(front_indices), front_num + 1,
                            chosen \o front_indices)
            ELSE LET remaining == pop_size - cnt
                     front_crowding == [x \in DOMAIN front_indices |-> cd[front_indices[x]]]
                     n == Len(front_indices)
                     sort_idx == argsort_distances(front_crowding)
                 IN {chosen \o [x \in 1..remaining |-> front_indices[sort_idx[n + 1 - x]]]}

\* S45 (MOHO.py:248-280): merge, sort, select, and bind P to the new arrays.
Select ==
    /\ pc = "select"
    /\ LET pool == [pos |-> heap[P.pos] \o heap[Q.pos],
                    scores |-> heap[P.scores] \o heap[Q.scores]]
           zero_pos == [j \in Coords |-> 0]
           zero_score == <<0, 0, 0>>
           new == IF 1 \in DOMAIN heap THEN <<3, 4>> ELSE <<1, 2>>
       IN \E r \in non_dominated_sort(pool.scores, "stable") :
             \E chosen \in SelectLoop(r.ranks, r.crowding_distances, 0, 1, <<>>) :
                /\ R' = [pos |-> pool.pos, scores |-> pool.scores, ranks |-> r.ranks,
                         crowding_distances |-> r.crowding_distances]
                /\ count' = Len(chosen)
                /\ selected' = chosen
                /\ heap' = [a \in DOMAIN heap \cup {new[1], new[2]} |->
                               IF a = new[1]
                               THEN [k \in Indices |->
                                        IF k <= Len(chosen) THEN pool.pos[chosen[k]]
                                        ELSE zero_pos]
                               ELSE IF a = new[2]
                               THEN [k \in Indices |->
                                        IF k <= Len(chosen) THEN pool.scores[chosen[k]]
                                        ELSE zero_score]
                               ELSE heap[a]]
                /\ P' = [P EXCEPT !.pos = new[1], !.scores = new[2]]
    /\ pc' = "rerank"
    /\ offered' = Offered(0, <<>>)
    /\ UNCHANGED <<t, i, Q, parent0, evaluated, result, pop_size, max_gen, domVars, sortVars>>

\* MOHO.py:281-283: rank the new parent.  R is not read again, and the
\* history of the generation ends here.
ReRank ==
    /\ pc = "rerank"
    /\ \E r \in non_dominated_sort(heap[P.scores], "stable") :
          P' = [P EXCEPT !.ranks = r.ranks,
                         !.crowding_distances = r.crowding_distances]
    /\ R' = <<>> /\ parent0' = {} /\ selected' = <<>>
    /\ pc' = "for_t"
    /\ UNCHANGED <<t, i, heap, Q, count, evaluated, result, offered, pop_size, max_gen, domVars, sortVars>>

\* MOHO.py:286-287: the rows of rank 1.
Return ==
    /\ pc = "for_t" /\ ~(t < max_gen)
    /\ LET final_front_indices == Where(P.ranks, 1)
       IN result' = <<[pos |-> [x \in DOMAIN final_front_indices |->
                                   heap[P.pos][final_front_indices[x]]],
                       scores |-> [x \in DOMAIN final_front_indices |->
                                      heap[P.scores][final_front_indices[x]]]]>>
    /\ pc' = "done"
    /\ UNCHANGED <<t, i, heap, P, Q, R, count, parent0, evaluated, offered, selected, pop_size, max_gen, domVars, sortVars>>

Next ==
    \/ InitPopulation
    \/ OffspringCopy
    \/ Exploration
    \/ Defense
    \/ Escape
    \/ Select
    \/ ReRank
    \/ Return

Spec == Init /\ [][Next]_vars

\* ----------------------------------------- moho, on any configuration

\* The calls moho(pop_size, max_gen, problem) with pop_size = PopSize or the
\* odd pop_size 3, and with max_gen = 0 or 1.  moho has no statement that looks at
\* its arguments before line 159, so the run starts as every run does.
InitCfg ==
    /\ DomIdle /\ SortIdle
    /\ pop_size \in {PopSize, 3} /\ max_gen \in {0, 1}
    /\ pc = "start" /\ t = 0 /\ i = 0
    /\ heap = <<>> /\ P = <<>> /\ Q = <<>> /\ R = <<>> /\ count = 0
    /\ parent0 = {}
    /\ evaluated = [in_bounds |-> TRUE, clipped |-> FALSE]
    /\ offered = NotKept /\ selected = <<>>
    /\ result = <<>>

SpecCfg == InitCfg /\ [][Next]_vars

\* ------------------------------- moho, from a sampled population on

\* Positions with the three objective vectors the evaluator has: sensor 2
\* (0,1,2), sensor 1 (0,1,1), sensor 0 (0,3,0).
Samples == {<<0, 0, 0>>, <<0, 1, 0>>, <<1, 0, 0>>}

\* moho(n, g, problem) when S41 (MOHO.py:159-166) is over, for the samples
\* above, with the history of candidates kept or not.
AfterS41(n, g, keep) ==
    /\ DomIdle /\ SortIdle
    /\ pop_size = n /\ max_gen = g
    /\ pc = "for_t" /\ t = 0 /\ i = 0
    /\ \E pos \in [1..n -> Samples] :
          LET s == [k \in 1..n |-> evaluate_objectives(pos[k])]
          IN \E r \in non_dominated_sort(s, "stable") :
                /\ heap = <<pos, s>>
                /\ P = [pos |-> 1, scores |-> 2, ranks |-> r.ranks,
                        crowding_distances |-> r.crowding_distances]
    /\ Q = <<>> /\ R = <<>> /\ count = 0
    /\ parent0 = {}
    /\ evaluated = [in_bounds |-> TRUE, clipped |-> FALSE]
    /\ offered = [kept |-> keep, slot |-> 0, tests |-> <<>>] /\ selected = <<>>
    /\ result = <<>>

\* The main loop and the return (MOHO.py:169-287).
MainLoop ==
    \/ OffspringCopy
    \/ Exploration
    \/ Defense
    \/ Escape
    \/ Select
    \/ ReRank
    \/ Return

\* The runs of moho(2, 2, problem) with the history kept: one index in each
\* of phases 1 and 2, both in phase 3, and both branches of the test on T.
InitAccept == AfterS41(2, 2, TRUE)

SpecAccept == InitAccept /\ [][MainLoop]_vars

\* One generation of moho(3, 1, problem).  Three is the smallest population
\* for which a front of the merged population is cut between rows of
\* different crowding distance.
InitSelect == AfterS41(3, 1, FALSE)

SpecSelect == InitSelect /\ [][MainLoop]_vars

\* moho(4, 1, problem), the smallest population whose phase 1 has two
\* indices: the copy and the passes of phase 1, up to phase 2.
InitOrder == AfterS41(4, 1, FALSE)

NextOrder ==
    \/ OffspringCopy
    \/ Exploration

SpecOrder == InitOrder /\ [][NextOrder]_vars

\* ================================================================ claims
\* ------------------------------------------------ determine_dominance

\* Pareto dominance as the specification words it: a is <= b on every
\* coordinate and the two differ.
Dominates(a, b) == (\A k \in DOMAIN a : a[k] <= b[k]) /\ a # b

\* C6: antisymmetry: for objective vectors a, b of equal length,
\* determine_dominance(a, b) = -determine_dominance(b, a).
C6_Antisymmetry == status # <<>> => status[1] = -status[2]

C6_Witness == status # <<>> /\ status[1] = -1 /\ status[2] = 1

\* C7: determine_dominance(a, b) is +1 exactly when a dominates b, -1 exactly
\* when b dominates a and 0 otherwise (equal vectors included); [1,2,3]
\* against [2,3,4] gives 1 and [1,5] against [5,1] gives 0.
C7_ThreeValued ==
    status # <<>> =>
        /\ status[1] = (IF Dominates(score1, score2) THEN 1
                        ELSE IF Dominates(score2, score1) THEN -1 ELSE 0)
        /\ (score1 = score2 => status[1] = 0)
        /\ (score1 = <<1, 2, 3>> /\ score2 = <<2, 3, 4>> => status[1] = 1)
        /\ (score1 = <<1, 5>> /\ score2 = <<5, 1>> => status[1] = 0)

C7_Witness == score1 = <<1, 2, 3>> /\ score2 = <<2, 3, 4>> /\ status = <<1, -1>>

\* ------------------------------------------------- non_dominated_sort

Max(S) == CHOOSE x \in S : \A y \in S : y <= x

Min(S) == CHOOSE x \in S : \A y \in S : x <= y

\* The individuals that dominate individual x of the sorted input.
Dominators(x) == {y \in DOMAIN scores : Dominates(scores[y], scores[x])}

\* C8: every individual gets a rank >= 1; the rank is 1 exactly when nobody
\* dominates the individual and otherwise one more than the largest rank among
\* its dominators; pairwise non-dominated inputs are all rank 1; the ranks
\* used are 1..K.
C8_Ranks ==
    sorted # <<>> =>
        LET ranks == sorted[1].ranks
        IN /\ DOMAIN ranks = DOMAIN scores
           /\ \A x \in DOMAIN scores :
                 /\ ranks[x] >= 1
                 /\ ranks[x] = 1 <=> Dominators(x) = {}
                 /\ Dominators(x) # {} =>
                       ranks[x] = 1 + Max({ranks[y] : y \in Dominators(x)})
           /\ (\A x \in DOMAIN scores : Dominators(x) = {}) =>
                 \A x \in DOMAIN scores : ranks[x] = 1
           /\ Range(ranks) = 1..Max(Range(ranks))

C8_Witness ==
    /\ sorted # <<>>
    /\ Range(sorted[1].ranks) = 1..3
    /\ \E x \in DOMAIN scores :
          sorted[1].ranks[x] = 3 /\ \E y \in Dominators(x) : sorted[1].ranks[y] = 1

\* C9: every member of a front (the individuals of one rank) of at most two
\* members has crowding distance infinity.
C9_SmallFronts ==
    sorted # <<>> =>
        \A x \in DOMAIN scores :
            Cardinality(FrontOf(sorted[1].ranks, sorted[1].ranks[x])) <= 2 =>
                sorted[1].crowding_distances[x] = Inf

\* Two equal score vectors that are a front of their own, behind a first front.
C9_Witness ==
    /\ sorted # <<>>
    /\ \E x, y \in DOMAIN scores :
          /\ x # y /\ scores[x] = scores[y]
          /\ sorted[1].ranks[x] = 2
          /\ FrontOf(sorted[1].ranks, 2) = {x, y}
          /\ sorted[1].crowding_distances[x] = Inf
          /\ sorted[1].crowding_distances[y] = Inf

\* The objectives on which the members of F do not all agree.
Spread(F) ==
    {m \in DOMAIN scores[1] : \E x, y \in F : scores[x][m] # scores[y][m]}

\* The ascending orders of the members of F on objective m.
Orders(F, m) == SortOrders(F, [x \in F, y \in F |-> scores[x][m] <= scores[y][m]])

\* One ascending order for each of the objectives m, m+1, ...
RECURSIVE OrderChoices(_, _)
OrderChoices(F, m) ==
    IF m > Len(scores[1]) THEN {<<>>}
    ELSE {<<p>> \o rest : p \in Orders(F, m), rest \in OrderChoices(F, m + 1)}

PlaceIn(p, x) == CHOOSE k \in DOMAIN p : p[k] = x

\* (next - previous) / (max - min) of x in the order p of objective m.
Gap(p, m, x) ==
    Frac(scores[p[PlaceIn(p, x) + 1]][m] - scores[p[PlaceIn(p, x) - 1]][m],
         scores[p[Len(p)]][m] - scores[p[1]][m])

\* The sum of the gaps of x over the objectives m, m+1, ... with a spread.
RECURSIVE GapSum(_, _, _, _)
GapSum(F, o, m, x) ==
    IF m > Len(scores[1]) THEN Zero
    ELSE FAdd(IF m \in Spread(F) THEN Gap(o[m], m, x) ELSE Zero,
              GapSum(F, o, m + 1, x))

\* x has the lowest or the highest value of F on an objective with a spread.
Extreme(F, x) ==
    \E m \in Spread(F) :
        \/ \A y \in F : scores[x][m] <= scores[y][m]
        \/ \A y \in F : scores[y][m] <= scores[x][m]

\* x is first or last in the order of an objective with a spread.
Boundary(F, o, x) ==
    \E m \in Spread(F) : o[m][1] = x \/ o[m][Len(o[m])] = x

BigFronts(ranks) ==
    {F \in {FrontOf(ranks, r) : r \in Range(ranks)} : Cardinality(F) > 2}

\* C10 as stated: in a front of more than two members, every member with the
\* lowest or the highest value on an objective (of non-zero range) has
\* distance infinity, every other member the sum of its normalized gaps; the
\* single-objective values [0, 1, 2, 10] give infinity, 0.2, 0.9, infinity.
C10_AsStated ==
    sorted # <<>> =>
        LET cd == sorted[1].crowding_distances
        IN /\ \A F \in BigFronts(sorted[1].ranks) :
                 \E o \in OrderChoices(F, 1) :
                     \A x \in F :
                         cd[x] = IF Extreme(F, x) THEN Inf ELSE GapSum(F, o, 1, x)
           /\ scores = Scenario4 => cd = <<Inf, Frac(2, 10), Frac(9, 10), Inf>>

\* C10, amended: on each objective of non-zero range it is the first and the
\* last member of the sorted order (one member with the lowest, one with the
\* highest value) that get infinity, and each member that is first or last on
\* no such objective gets the sum of its normalized gaps; four points
\* (0,10), (1,2), (2,1), (10,0) of one front give infinity, 0.2 + 0.9,
\* 0.9 + 0.2, infinity; the single-objective values [0, 1, 2, 10] are four
\* fronts of one point, all at infinity.
C10_Crowding ==
    sorted # <<>> =>
        LET cd == sorted[1].crowding_distances
        IN /\ \A F \in BigFronts(sorted[1].ranks) :
                 \E o \in OrderChoices(F, 1) :
                     \A x \in F :
                         cd[x] = IF Boundary(F, o, x) THEN Inf ELSE GapSum(F, o, 1, x)
           /\ scores = Scenario4Front =>
                 cd = <<Inf, Frac(11, 10), Frac(11, 10), Inf>>
           /\ scores = Scenario4 => cd = <<Inf, Inf, Inf, Inf>>

\* A front of four in which a member tied for the lowest value of an
\* objective is left with a finite distance.
C10_Witness ==
    /\ sorted # <<>>
    /\ \E F \in BigFronts(sorted[1].ranks) :
          \E x \in F : Extreme(F, x) /\ ~IsInf(sorted[1].crowding_distances[x])

\* ----------------------------------------------------------------- moho

Phases == {"exploration", "defense", "escape"}

\* The (position, objective vector) pairs held by two arrays of the heap.
Individuals(pos, sc) == {<<pos[k], sc[k]>> : k \in DOMAIN pos}

\* A step of a phase leaves the arrays of P as they are.
ParentUntouched ==
    pc \in Phases =>
        (heap'[P.pos] = heap[P.pos] /\ heap'[P.scores] = heap[P.scores])

\* C1: within a generation Q is a value-copy of P: a step of the Exploration,
\* Defense or Escape phase (an accepted write to slot i of Q included) leaves
\* the positions and scores of P as they are, so that when the phases are
\* over P still holds the objective vectors it held when the generation began.
C1_ParentReadOnly ==
    /\ [][ParentUntouched]_vars
    /\ [](pc = "select" => Range(heap[P.scores]) = parent0)

\* C2: elitism: no individual of the next parent population is dominated by
\* an individual of the parent population of the start of the generation that
\* is absent from the next parent population.
C2_Elitism ==
    pc = "rerank" =>
        \A s \in parent0 :
            (\E k \in Indices : Dominates(s, heap[P.scores][k])) =>
                \E k \in Indices : heap[P.scores][k] = s

\* C3: after Init and after every selection the parent population holds
\* exactly pop_size individuals; after a selection each is a (position,
\* objective vector) pair of the merged population of 2 * pop_size, and the
\* selection loop has filled all pop_size slots.
C3_PopulationSize ==
    /\ pc # "start" =>
          /\ DOMAIN heap[P.pos] = Indices
          /\ DOMAIN heap[P.scores] = Indices
    /\ pc = "rerank" =>
          /\ count = PopSize
          /\ Len(R.pos) = 2 * PopSize
          /\ Len(R.scores) = 2 * PopSize
          /\ \A k \in Indices :
                <<heap[P.pos][k], heap[P.scores][k]>> \in Individuals(R.pos, R.scores)

\* A selection that had to cut the first front.
C3_Witness ==
    /\ pc = "rerank"
    /\ count = PopSize
    /\ Cardinality(FrontOf(R.ranks, 1)) > PopSize
    /\ \A k \in Indices :
          <<heap[P.pos][k], heap[P.scores][k]>> \in Individuals(R.pos, R.scores)

\* The position arrays of the parent and of the offspring.
PositionArrays == {P.pos} \cup (IF t >= 1 THEN {Q.pos} ELSE {})

\* C4: bounds: after the initialization, after every step of a phase and after
\* every selection, every coordinate of every position of the parent and of
\* the offspring lies in [lb, ub], and so did every position handed to the
\* evaluator.
C4_Bounds ==
    pc # "start" =>
        /\ evaluated.in_bounds
        /\ \A a \in PositionArrays : \A k \in DOMAIN heap[a] : InBounds(heap[a][k])

\* The phases of the last generation are over and np.clip had work to do.
C4_Witness ==
    /\ pc = "select" /\ t = MaxGen
    /\ evaluated.clipped /\ evaluated.in_bounds
    /\ \A a \in PositionArrays : \A k \in DOMAIN heap[a] : InBounds(heap[a][k])

\* The individuals of rank 1 of the parent population.
FrontOne == FrontOf(P.ranks, 1)

\* C5: after every generation and at the end, the rank-1 set of the parent is
\* not empty, has at most pop_size members, and no member dominates another;
\* the value returned is the positions and objective vectors of that set.
C5_FinalFront ==
    /\ pc \in {"for_t", "done"} =>
          /\ FrontOne # {}
          /\ Cardinality(FrontOne) <= PopSize
          /\ \A x, y \in FrontOne :
                ~Dominates(heap[P.scores][x], heap[P.scores][y])
    /\ pc = "done" =>
          /\ result # <<>>
          /\ Len(result[1].pos) = Cardinality(FrontOne)
          /\ Len(result[1].scores) = Cardinality(FrontOne)
          /\ Individuals(result[1].pos, result[1].scores)
                = {<<heap[P.pos][x], heap[P.scores][x]>> : x \in FrontOne}

\* A run that returned a front of two different, mutually non-dominated points.
C5_Witness ==
    /\ pc = "done" /\ t = MaxGen
    /\ Len(result[1].scores) >= 2
    /\ result[1].scores[1] # result[1].scores[2]
    /\ ~Dominates(result[1].scores[1], result[1].scores[2])
    /\ ~Dominates(result[1].scores[2], result[1].scores[1])

\* A configuration that is not malformed.
WellFormed ==
    /\ problem.dimension > 0
    /\ pop_size > 0
    /\ problem.lb < problem.ub
    /\ pop_size % 2 = 0
    /\ max_gen >= 1

\* C11: a call with a malformed configuration (dimension <= 0, pop_size <= 0,
\* lb >= ub, odd pop_size, max_gen < 1) ends in an error at initialization:
\* no population is sampled, no generation runs and no front is returned, so
\* a run that is past its first statement has a well-formed configuration.
C11_ConfigChecked == pc # "start" => WellFormed

\* C12: the update of an index reads the parent of the start of the
\* generation and writes its own slot of the offspring only, so the outcome
\* of a phase is the same in every order of its indices; the leader and the
\* group mean that phase 1 reads for index i are those of the parent as it
\* was when the generation began, whatever was accepted for other indices:
\* when a pass of phase 1 begins, P holds the objective vectors it held at the
\* start of the generation.
C12_ReadsStartParent ==
    pc = "exploration" => Range(heap[P.scores]) = parent0

\* The slot content a list of clipped candidates leaves, by the rule of the
\* specification: each in turn replaces the content when its objective
\* vector dominates that of the content or neither dominates the other.
RECURSIVE Resolve(_, _)
Resolve(content, tests) ==
    IF tests = <<>> THEN content
    ELSE LET score_new == evaluate_objectives(Head(tests))
         IN Resolve(IF Dominates(content.score, score_new)
                    THEN content
                    ELSE [pos |-> Head(tests), score |-> score_new],
                    Tail(tests))

\* A pass of a phase leaves in slot i of the offspring what the rule gives
\* from the content the slot had when the pass began, and leaves the other
\* slots of the offspring alone.
AcceptanceStep ==
    pc \in Phases =>
        LET now == Resolve([pos |-> heap[Q.pos][i], score |-> heap[Q.scores][i]],
                           offered'.tests)
        IN /\ offered'.slot = i
           /\ heap'[Q.pos][i] = now.pos
           /\ heap'[Q.scores][i] = now.score
           /\ \A k \in Indices \ {i} :
                 /\ heap'[Q.pos][k] = heap[Q.pos][k]
                 /\ heap'[Q.scores][k] = heap[Q.scores][k]

\* C13: in every phase a clipped candidate overwrites position and score of
\* slot i of the offspring if and only if determine_dominance(candidate
\* score, score in the slot) >= 0, and otherwise the slot is left as it is;
\* in phase 1 candidate A is resolved first and B is tested against what A
\* left, and phase 3 tests against what phases 1 and 2 left in the slot.
C13_Acceptance == [][AcceptanceStep]_vars

\* A pass of phase 1 in which A was taken and B, dominated by A, was not.
C13_Witness ==
    /\ offered.kept /\ Len(offered.tests) = 2
    /\ offered.tests[1] # offered.tests[2]
    /\ heap[Q.pos][offered.slot] = offered.tests[1]
    /\ Dominates(heap[Q.scores][offered.slot], evaluate_objectives(offered.tests[2]))

\* The rows of R the latest selection took, and those it left.
Taken == Range(selected)

Left == DOMAIN R.ranks \ Taken

\* The rows of R of a rank below r.
Before(r) == {x \in DOMAIN R.ranks : R.ranks[x] < r}

\* C14: the selection consumes the fronts of the merged population in the
\* order of their ranks: no row taken has a rank above that of a row left; a
\* front that fits in the capacity that remains is copied whole; of the one
\* front that is cut exactly the remaining number is taken and no row taken
\* has a smaller crowding distance than a row of that front that is left.
C14_SelectionOrder ==
    pc = "rerank" =>
        /\ Cardinality(Taken) = Len(selected)
        /\ \A x \in Taken, y \in Left : R.ranks[x] <= R.ranks[y]
        /\ \A r \in Range(R.ranks) :
              LET F == FrontOf(R.ranks, r)
                  room == pop_size - Cardinality(Before(r))
              IN IF Cardinality(F) <= room THEN F \subseteq Taken
                 ELSE IF room > 0
                 THEN /\ Cardinality(F \cap Taken) = room
                      /\ \A x \in F \cap Taken, y \in F \cap Left :
                            FLeq(R.crowding_distances[y], R.crowding_distances[x])
                 ELSE F \cap Taken = {}
        /\ \A k \in DOMAIN selected :
              /\ heap[P.pos][k] = R.pos[selected[k]]
              /\ heap[P.scores][k] = R.scores[selected[k]]

\* A selection that cut a front between rows of different crowding distance.
C14_Witness ==
    /\ pc = "rerank"
    /\ \E x \in Taken, y \in Left :
          /\ R.ranks[x] = R.ranks[y]
          /\ ~FLeq(R.crowding_distances[x], R.crowding_distances[y])

\* The statement that follows each statement of a run, with the index ranges
\* of the three phases.
GenerationStep ==
    /\ pc = "start" => pc' = "for_t" /\ t' = 0
    /\ pc = "for_t" =>
          IF t < max_gen
          THEN pc' = "exploration" /\ i' = 1 /\ t' = t + 1
          ELSE pc' = "done" /\ t' = t
    /\ pc = "exploration" =>
          /\ i \in 1..(pop_size \div 2) /\ t' = t
          /\ IF i < pop_size \div 2
             THEN pc' = "exploration" /\ i' = i + 1
             ELSE pc' = "defense" /\ i' = pop_size \div 2 + 1
    /\ pc = "defense" =>
          /\ i \in (pop_size \div 2 + 1)..pop_size /\ t' = t
          /\ IF i < pop_size
             THEN pc' = "defense" /\ i' = i + 1
             ELSE pc' = "escape" /\ i' = 1
    /\ pc = "escape" =>
          /\ i \in 1..pop_size /\ t' = t
          /\ IF i < pop_size
             THEN pc' = "escape" /\ i' = i + 1
             ELSE pc' = "select"
    /\ pc = "select" => pc' = "rerank" /\ t' = t
    /\ pc = "rerank" => pc' = "for_t" /\ t' = t
    /\ pc # "done"

\* The passes and statements of a generation: the copy, pop_size // 2 passes
\* of phase 1, the other pop_size - pop_size // 2 of phase 2, pop_size of
\* phase 3, the selection and the re-rank.
PerGeneration == 2 * pop_size + 3

\* The steps a run has left: those of the generation it is in, those of the
\* generations to come, and the return.
StepsLeft ==
    CASE pc = "start" -> 2 + max_gen * PerGeneration
      [] pc = "for_t" -> 1 + (max_gen - t) * PerGeneration
      [] pc = "exploration" ->
            (pop_size \div 2 - i + 1) + (pop_size - pop_size \div 2) + pop_size + 3
            + (max_gen - t) * PerGeneration
      [] pc = "defense" -> (pop_size - i + 1) + pop_size + 3 + (max_gen - t) * PerGeneration
      [] pc = "escape" -> (pop_size - i + 1) + 3 + (max_gen - t) * PerGeneration
      [] pc = "select" -> 3 + (max_gen - t) * PerGeneration
      [] pc = "rerank" -> 2 + (max_gen - t) * PerGeneration
      [] OTHER -> 0

\* C15: for max_gen >= 1 moho runs exactly max_gen generations and then
\* ends; in a generation the steps come in the order copy, phase 1 on the
\* indices [0, pop_size/2), phase 2 on [pop_size/2, pop_size), phase 3 on all
\* indices, selection, re-rank: phase 3 starts when phases 1 and 2 are over
\* for all their indices and the selection when phase 3 is over for all.
C15_GenerationOrder ==
    /\ [][GenerationStep /\ StepsLeft' = StepsLeft - 1]_vars
    /\ [](pc = "done" => t = max_gen)
    /\ [](StepsLeft >= 0 /\ (StepsLeft = 0 <=> pc = "done"))

\* A run of max_gen >= 1 generations that has ended.
C15_Witness == pc = "done" /\ max_gen >= 1 /\ t = max_gen /\ result # <<>>

====
